---- MODULE Spec2Model ----
(***************************************************************************)
(* Model of telemedicine_backend/simple_main.py: the in-memory room        *)
(* registry (rooms, users, connections, messages), the HTTP handlers       *)
(* create_room / join_room, the websocket_endpoint coroutine and           *)
(* broadcast_to_room.                                                      *)
(*                                                                         *)
(* Scheduling: one asyncio event loop.  A coroutine runs without           *)
(* interruption from one await on the transport (accept, send_text,        *)
(* receive_text) to the next, so every action below is the code between    *)
(* two such awaits.  While a coroutine is suspended in an await, any other *)
(* coroutine may run.                                                      *)
(*                                                                         *)
(* dict: CPython's insertion-ordered dict.  An entry deleted leaves an     *)
(* empty slot (k = 0), a new key is appended, an assignment to a present   *)
(* key replaces the value in place.  An iterator remembers the number of   *)
(* live entries at its creation and raises RuntimeError once the dict's    *)
(* size differs, or once it meets more entries than it expected.           *)
(***************************************************************************)
EXTENDS Integers, Sequences, FiniteSets, TLC

\* ---------------------------------------------------------------- bounds
MaxIds == 3         \* ids handed out by generate_room_id / generate_user_id
MaxSessions == 2    \* websocket connections accepted
MaxMessages == 1    \* message events appended to one room under Spec
MaxHistory == 51    \* message events appended to the room under SpecHistory

\* ------------------------------------------------------ program constants
HistoryWindow == 50    \* room.messages[-50:]
RecentWindow == 10     \* room.messages[-10:]

Sessions == 1..MaxSessions

\* Usernames are sequences of characters, so that lower() is computed.
Usernames == { <<"a", "l">>, <<"A", "l">>, <<"b", "o">> }
CreatorNames == { <<"a", "l">> }
RoomNames == { "Standup" }
Contents == { "hi" }

VARIABLES
    rooms,                \* keys of the module-level dict rooms
    heap,                 \* every ChatRoom object created, by room_id
    active_connections,   \* the module-level dict active_connections
    nextId,               \* the next fresh uuid
    nextMsg,              \* the next fresh message uuid
    pc,                   \* where each websocket_endpoint coroutine is suspended
    loc,                  \* each coroutine's local variables
    net,                  \* each websocket's transport: "open" or "closed"
    client_state,         \* each websocket's client_state
    step                  \* what the last step did and sent

vars == << rooms, heap, active_connections, nextId, nextMsg, pc, loc, net,
           client_state, step >>

\* ------------------------------------------------------------------ str
LowerChar(c) ==
    CASE c = "A" -> "a"
      [] c = "B" -> "b"
      [] c = "L" -> "l"
      [] c = "O" -> "o"
      [] OTHER -> c

Lower(str) == [i \in 1..Len(str) |-> LowerChar(str[i])]

\* ----------------------------------------------------------------- dict
Dummy == [k |-> 0, v |-> 0]

DictLive(d) == { i \in 1..Len(d) : d[i].k # 0 }

DictKeys(d) == { d[i].k : i \in DictLive(d) }

DictLen(d) == Cardinality(DictLive(d))

DictHas(d, key) == key \in DictKeys(d)

DictSet(d, key, val) ==
    IF DictHas(d, key)
    THEN [i \in 1..Len(d) |-> IF d[i].k = key THEN [k |-> key, v |-> val] ELSE d[i]]
    ELSE Append(d, [k |-> key, v |-> val])

DictDel(d, key) ==
    [i \in 1..Len(d) |-> IF d[i].k = key THEN Dummy ELSE d[i]]

\* A TLA+ function with one key removed / set (dicts that are never iterated
\* while suspended).
MapDel(f, key) == [x \in (DOMAIN f) \ {key} |-> f[x]]

MapSet(f, key, val) == [x \in (DOMAIN f) \cup {key} |-> IF x = key THEN val ELSE f[x]]

\* -------------------------------------------------------------- objects
NewRoom(room_id, name) ==
    [room_id |-> room_id, name |-> name, users |-> << >>,
     connections |-> << >>, messages |-> << >>]

NewUser(user_id, username, is_creator) ==
    [user_id |-> user_id, username |-> username, is_creator |-> is_creator]

NoEvent == [type |-> "none"]

\* A broadcast_to_room call in progress: its arguments, the dict iterator
\* (pos: the next slot to look at; used: the dict's size when the iterator was
\* made; len: the entries it still expects), the disconnected list, the entry
\* whose send is awaited.  ctx names the call site; state is "send" (suspended
\* in send_text), "done" (returned) or "error" (raised).  targets, attempted
\* and delivered record the pass for the properties: the entries registered
\* and not excluded when the pass began, the entries a send was attempted to,
\* and the websockets that got the event.
NoBc == [ctx |-> "none", state |-> "none", message |-> NoEvent, exclude_user |-> 0,
         pos |-> 0, used |-> 0, len |-> 0, disconnected |-> << >>, cur |-> Dummy,
         targets |-> {}, attempted |-> {}, delivered |-> {}]

\* websocket_endpoint's locals: its arguments, user["username"] of the user
\* dict it holds, the broadcast it is inside, the event of its own pending
\* send_text, and whether it has registered / entered its finally block.
NoLoc == [room_id |-> 0, user_id |-> 0, username |-> << >>, bc |-> NoBc,
          frame |-> NoEvent, registered |-> FALSE, closing |-> FALSE]

NoPass == [ctx |-> "none", state |-> "none", message |-> NoEvent, exclude_user |-> 0,
           targets |-> {}, attempted |-> {}, delivered |-> {},
           disconnected |-> << >>]

\* The last step: the operation, the coroutine (or room) it belongs to, its
\* argument (join_room's username), its result, the events it delivered, and the broadcast pass it ended, if any.
NoStep == [op |-> "init", s |-> 0, arg |-> << >>, res |-> "", sends |-> << >>,
           pass |-> NoPass]

StepOf(op, s) == [NoStep EXCEPT !.op = op, !.s = s]

\* F applied to the value of x: x is evaluated once, whatever the number of
\* places F uses it in.
Bind(x, F(_)) == CHOOSE r \in { F(v) : v \in {x} } : TRUE

\* The whole state as one value, so that the code between two awaits is a
\* composition of functions on it.
Cur ==
    [rooms |-> rooms, heap |-> heap, active_connections |-> active_connections,
     nextId |-> nextId, nextMsg |-> nextMsg, pc |-> pc, loc |-> loc, net |-> net,
     client_state |-> client_state, step |-> step]

Becomes(g0) ==
    \E g \in {g0} :
    /\ rooms' = g.rooms
    /\ heap' = g.heap
    /\ active_connections' = g.active_connections
    /\ nextId' = g.nextId
    /\ nextMsg' = g.nextMsg
    /\ pc' = g.pc
    /\ loc' = g.loc
    /\ net' = g.net
    /\ client_state' = g.client_state
    /\ step' = g.step

Init ==
    /\ rooms = {}
    /\ heap = << >>
    /\ active_connections = << >>
    /\ nextId = 1
    /\ nextMsg = 1
    /\ pc = [s \in Sessions |-> "idle"]
    /\ loc = [s \in Sessions |-> NoLoc]
    /\ net = [s \in Sessions |-> "closed"]
    /\ client_state = [s \in Sessions |-> "CONNECTING"]
    /\ step = NoStep

\* ----------------------------------------------------------------- HTTP
\* create_room: a fresh room holding the creator as its only user.
CreateRoomResult(g0, room_name, username) ==
    Bind(g0, LAMBDA g :
    LET room_id == g.nextId
        user_id == g.nextId + 1
        room == [NewRoom(room_id, room_name) EXCEPT
                    !.users = MapSet(<< >>, user_id, NewUser(user_id, username, TRUE))]
    IN [g EXCEPT !.rooms = @ \cup {room_id},
                 !.heap = MapSet(@, room_id, room),
                 !.nextId = @ + 2,
                 !.step = [StepOf("create_room", room_id) EXCEPT !.res = "ok"]])

CreateRoom(room_name, username) == Becomes(CreateRoomResult(Cur, room_name, username))

\* Mutant of UsernameTaken: the comparison without lower().
UsernameTakenExact(room, username) ==
    \E u \in DOMAIN room.users : room.users[u].username = username

\* join_room, lines 113-115: is the username taken in this room?
UsernameTaken(room, username) ==
    \E u \in DOMAIN room.users : Lower(room.users[u].username) = Lower(username)

JoinRoomResult(g0, room_id, username) ==
    Bind(g0, LAMBDA g :
    IF room_id \notin g.rooms
    THEN [g EXCEPT !.step = [StepOf("join_room", room_id) EXCEPT
                                !.arg = username, !.res = "RoomNotFound"]]
    ELSE IF UsernameTaken(g.heap[room_id], username)
    THEN [g EXCEPT !.step = [StepOf("join_room", room_id) EXCEPT
                                !.arg = username, !.res = "UsernameTaken"]]
    ELSE LET user_id == g.nextId
         IN [g EXCEPT !.heap[room_id].users =
                          MapSet(@, user_id, NewUser(user_id, username, FALSE)),
                      !.nextId = @ + 1,
                      !.step = [StepOf("join_room", room_id) EXCEPT
                                   !.arg = username, !.res = "ok"]])

JoinRoom(room_id, username) == Becomes(JoinRoomResult(Cur, room_id, username))

\* get_room_messages, line 141: room.messages[-50:]
GetRoomMessages(room) ==
    SubSeq(room.messages, IF Len(room.messages) > HistoryWindow
                          THEN Len(room.messages) - HistoryWindow + 1 ELSE 1,
           Len(room.messages))

\* ------------------------------------------------------------ transport
\* A handler that returns or raises: the server closes its websocket.
Exit(g0, s, how) ==
    Bind(g0, LAMBDA g :
    [g EXCEPT !.pc[s] = how, !.net[s] = "closed",
              !.loc[s].bc = NoBc, !.loc[s].frame = NoEvent])

\* send_text on websocket `to` completes: the event reaches the client.
Deliver(g0, to, ev) ==
    Bind(g0, LAMBDA g :
    [g EXCEPT !.step.sends = Append(@, [to |-> to, ev |-> ev])])

\* ------------------------------------------------------ broadcast_to_room
\* Mutant of Excluded: exclude_user is ignored.
ExcludedNever(exclude_user, user_id) == FALSE

\* line 270: if exclude_user and user_id == exclude_user
Excluded(exclude_user, user_id) == exclude_user # 0 /\ user_id = exclude_user

\* Mutant of Deregister: the user is removed, its connection is kept.
DeregisterUserOnly(g0, room_id, user_id) ==
    Bind(g0, LAMBDA g :
    [g EXCEPT !.heap[room_id].users = MapDel(@, user_id)])

\* lines 284-290, for one user_id of the disconnected list.
Deregister(g0, room_id, user_id) ==
    Bind(g0, LAMBDA g :
    [g EXCEPT !.heap[room_id].connections = DictDel(@, user_id),
              !.active_connections = MapDel(@, user_id),
              !.heap[room_id].users = MapDel(@, user_id)])

RECURSIVE CleanUp(_, _, _)
\* lines 284-290: every user_id of the disconnected list is deregistered.
CleanUp(g0, room_id, disconnected) ==
    Bind(g0, LAMBDA g :
    IF disconnected = << >> THEN g
    ELSE CleanUp(Deregister(g, room_id, Head(disconnected)), room_id, Tail(disconnected)))

\* The pass ends (state "done" or "error"): it is recorded in step.
EndPass(g0, s, state) ==
    Bind(g0, LAMBDA g :
    LET bc == g.loc[s].bc
    IN [g EXCEPT !.loc[s].bc.state = state,
                 !.step.pass = [ctx |-> bc.ctx, state |-> state, message |-> bc.message,
                                exclude_user |-> bc.exclude_user, targets |-> bc.targets,
                                attempted |-> bc.attempted, delivered |-> bc.delivered,
                                disconnected |-> bc.disconnected]])

RECURSIVE Loop(_, _)
\* lines 269-290, from the top of the for statement to the next await of
\* send_text, the return or the RuntimeError of the dict iterator.
Loop(g0, s) ==
    Bind(g0, LAMBDA g :
    LET room_id == g.loc[s].room_id
        d == g.heap[room_id].connections
        bc == g.loc[s].bc
        ahead == { i \in DictLive(d) : i >= bc.pos }
    IN IF bc.used # DictLen(d)
       THEN EndPass(g, s, "error")      \* dictionary changed size during iteration
       ELSE IF ahead = {}
       THEN EndPass(CleanUp(g, room_id, bc.disconnected), s, "done")
       ELSE IF bc.len = 0
       THEN EndPass(g, s, "error")      \* dictionary keys changed during iteration
       ELSE LET i == CHOOSE j \in ahead : \A k \in ahead : j <= k
                e == d[i]
                g1 == [g EXCEPT !.loc[s].bc.pos = i + 1, !.loc[s].bc.len = @ - 1]
            IN IF Excluded(bc.exclude_user, e.k)
               THEN Loop(g1, s)
               ELSE IF g.client_state[e.v] = "DISCONNECTED"
               THEN Loop([g1 EXCEPT !.loc[s].bc.disconnected = Append(@, e.k)], s)
               ELSE [g1 EXCEPT !.loc[s].bc.cur = e, !.loc[s].bc.state = "send",
                               !.loc[s].bc.attempted = @ \cup {e}])

\* lines 262-269: the call, up to its first await, return or error.
Broadcast(g0, s, message, exclude_user, ctx) ==
    Bind(g0, LAMBDA g :
    LET room_id == g.loc[s].room_id
    IN IF room_id \notin g.rooms
       THEN EndPass([g EXCEPT !.loc[s].bc = [NoBc EXCEPT !.ctx = ctx,
                                 !.message = message, !.exclude_user = exclude_user]],
                    s, "done")
       ELSE LET d == g.heap[room_id].connections
            IN Loop([g EXCEPT !.loc[s].bc =
                        [NoBc EXCEPT !.ctx = ctx, !.message = message,
                                     !.exclude_user = exclude_user,
                                     !.pos = 1, !.used = DictLen(d), !.len = DictLen(d),
                                     !.targets = { d[i] : i \in { j \in DictLive(d) :
                                                   ~Excluded(exclude_user, d[j].k) } }]],
                    s))

\* ----------------------------------------------------- websocket_endpoint
\* Mutant of RecentMessages: the slice is forgotten.
RecentMessagesAll(messages) == messages

\* room.messages[-10:]
RecentMessages(messages) ==
    SubSeq(messages, IF Len(messages) > RecentWindow
                     THEN Len(messages) - RecentWindow + 1 ELSE 1, Len(messages))

\* lines 185-191: the room_info event, built when send_text is called.
RoomInfo(room) ==
    [type |-> "room_info", room_id |-> room.room_id, room_name |-> room.name,
     users |-> room.users, recent_messages |-> RecentMessages(room.messages)]

\* Mutant of CleanUpEmptyRoom: the room is deleted without the test of 259.
CleanUpRoomAlways(g0, s) ==
    Bind(g0, LAMBDA g :
    Exit([g EXCEPT !.rooms = @ \ {g.loc[s].room_id}], s, "closed"))

\* lines 258-260, after the user_left broadcast has returned.
CleanUpEmptyRoom(g0, s) ==
    Bind(g0, LAMBDA g :
    LET room_id == g.loc[s].room_id
    IN IF DOMAIN g.heap[room_id].users = {}
       THEN IF room_id \in g.rooms
            THEN Exit([g EXCEPT !.rooms = @ \ {room_id}], s, "closed")
            ELSE Exit(g, s, "raised")          \* del rooms[room_id]: KeyError
       ELSE Exit(g, s, "closed"))

\* The finally block after its broadcast_to_room call suspended, returned or
\* raised.
CloseTail(g0, s) ==
    Bind(g0, LAMBDA g :
    CASE g.loc[s].bc.state = "send" -> [g EXCEPT !.pc[s] = "bc_send"]
      [] g.loc[s].bc.state = "done" -> CleanUpEmptyRoom(g, s)
      [] OTHER -> Exit(g, s, "raised"))

\* lines 238-241: the connection is deregistered.
RemoveConnection(g0, s) ==
    Bind(g0, LAMBDA g :
    LET room_id == g.loc[s].room_id
        user_id == g.loc[s].user_id
    IN [g EXCEPT !.heap[room_id].connections = DictDel(@, user_id),
                 !.active_connections = MapDel(@, user_id)])

\* lines 252-254: the user is removed from the room.
RemoveUser(g0, s) ==
    Bind(g0, LAMBDA g :
    [g EXCEPT !.heap[g.loc[s].room_id].users = MapDel(@, g.loc[s].user_id)])

\* lines 244-250
LeaveMessage(g0, s) ==
    Bind(g0, LAMBDA g :
    [type |-> "user_left", user_id |-> g.loc[s].user_id, username |-> g.loc[s].username,
     users_count |-> Cardinality(DOMAIN g.heap[g.loc[s].room_id].users) - 1])

\* lines 236-260: the finally block, up to its first await or its end.
Finally(g0, s) ==
    Bind(g0, LAMBDA g :
    LET g1 == RemoveConnection([g EXCEPT !.loc[s].closing = TRUE,
                                         !.loc[s].frame = NoEvent], s)
        leave_message == LeaveMessage(g1, s)
    IN CloseTail(Broadcast(RemoveUser(g1, s), s, leave_message, 0, "leave"), s))

\* The code after a broadcast_to_room call that suspended, returned or raised,
\* by call site: line 182 (outside the try), lines 213 and 223 (inside it),
\* line 256 (in the finally block).
AfterBroadcast(g0, s) ==
    Bind(g0, LAMBDA g :
    LET bc == g.loc[s].bc
    IN CASE bc.ctx = "leave" -> CloseTail(g, s)
         [] bc.state = "send" -> [g EXCEPT !.pc[s] = "bc_send"]
         [] bc.ctx = "join" /\ bc.state = "done" ->
                [g EXCEPT !.pc[s] = "room_info", !.loc[s].bc = NoBc,
                          !.loc[s].frame = RoomInfo(g.heap[g.loc[s].room_id])]
         [] bc.ctx = "join" /\ bc.state = "error" -> Exit(g, s, "raised")
         [] bc.state = "done" -> [g EXCEPT !.pc[s] = "receive", !.loc[s].bc = NoBc]
         [] OTHER -> Finally([g EXCEPT !.loc[s].bc = NoBc], s))

\* lines 167-169: the connection is stored.
StoreConnection(g0, s) ==
    Bind(g0, LAMBDA g :
    LET room_id == g.loc[s].room_id
        user_id == g.loc[s].user_id
    IN [g EXCEPT !.heap[room_id].connections = DictSet(@, user_id, s),
                 !.active_connections = MapSet(@, user_id, s),
                 !.loc[s].registered = TRUE])

\* Mutant of JoinMessage: the count is taken without the joining member.
JoinMessageCountBefore(g0, s) ==
    Bind(g0, LAMBDA g :
    [type |-> "user_joined", user_id |-> g.loc[s].user_id, username |-> g.loc[s].username,
     users_count |-> Cardinality(DOMAIN g.heap[g.loc[s].room_id].users) - 1])

\* lines 174-180
JoinMessage(g0, s) ==
    Bind(g0, LAMBDA g :
    [type |-> "user_joined", user_id |-> g.loc[s].user_id, username |-> g.loc[s].username,
     users_count |-> Cardinality(DOMAIN g.heap[g.loc[s].room_id].users)])

\* Mutant of Reject: the websocket is closed without the error event.
RejectSilent(g0, s, message) ==
    Bind(g0, LAMBDA g :
    Exit([g EXCEPT !.step.res = message], s, "closed"))

\* lines 149-165: the room or the user is missing: one error event, close.
Reject(g0, s, message) ==
    Bind(g0, LAMBDA g :
    IF g.net[s] = "open"
    THEN Exit(Deliver([g EXCEPT !.step.res = message], s,
                      [type |-> "error", message |-> message]), s, "closed")
    ELSE Exit([g EXCEPT !.step.res = message], s, "raised"))

\* lines 149-182: from accept to the first await of the user_joined broadcast.
ConnectingResult(g0, s) ==
    Bind(g0, LAMBDA g :
    LET room_id == g.loc[s].room_id
        user_id == g.loc[s].user_id
    IN IF room_id \notin g.rooms
       THEN Reject(g, s, "Room not found")
       ELSE IF user_id \notin DOMAIN g.heap[room_id].users
       THEN Reject(g, s, "User not found in room")
       ELSE LET g1 == StoreConnection(
                        [g EXCEPT !.loc[s].username =
                                      g.heap[room_id].users[user_id].username], s)
            IN AfterBroadcast(Broadcast(g1, s, JoinMessage(g1, s), user_id, "join"), s))

\* ---------------------------------------------------------------- steps
\* A client opens /ws/{room_id}/{user_id}; the handler awaits accept.
OpenSession(s, room_id, user_id) ==
    /\ pc[s] = "idle"
    /\ \A o \in Sessions : o < s => pc[o] # "idle"
    /\ Becomes([Cur EXCEPT !.pc[s] = "connecting", !.net[s] = "open",
                           !.client_state[s] = "CONNECTED",
                           !.loc[s] = [NoLoc EXCEPT !.room_id = room_id,
                                                    !.user_id = user_id],
                           !.step = StepOf("open", 0)])

\* accept returns.
Connecting(s) ==
    /\ pc[s] = "connecting"
    /\ Becomes(ConnectingResult([Cur EXCEPT !.step = StepOf("connect", s)], s))

\* lines 273-281: the awaited send_text of a broadcast returns or raises; the
\* loop goes on.
SendCompleteResult(g0, s) ==
    Bind(g0, LAMBDA g :
    LET bc == g.loc[s].bc
        g1 == IF g.net[bc.cur.v] = "open"
              THEN [Deliver(g, bc.cur.v, bc.message) EXCEPT
                        !.loc[s].bc.delivered = @ \cup {bc.cur.v}]
              ELSE [g EXCEPT !.loc[s].bc.disconnected = Append(@, bc.cur.k)]
    IN AfterBroadcast(Loop(g1, s), s))

SendComplete(s) ==
    /\ pc[s] = "bc_send"
    /\ Becomes(SendCompleteResult([Cur EXCEPT !.step = StepOf("bc_send", s)], s))

\* lines 185-193: the send_text of room_info returns or raises (outside the try).
RoomInfoCompleteResult(g0, s) ==
    Bind(g0, LAMBDA g :
    IF g.net[s] = "open"
    THEN [Deliver(g, s, g.loc[s].frame) EXCEPT !.pc[s] = "receive",
                                               !.loc[s].frame = NoEvent]
    ELSE Exit(g, s, "raised"))

RoomInfoComplete(s) ==
    /\ pc[s] = "room_info"
    /\ Becomes(RoomInfoCompleteResult([Cur EXCEPT !.step = StepOf("room_info", s)], s))

\* lines 198-213: a message event.
MessageResult(g0, s, content) ==
    Bind(g0, LAMBDA g :
    LET message == [type |-> "message", id |-> g.nextMsg, content |-> content,
                    user_id |-> g.loc[s].user_id, username |-> g.loc[s].username]
        g1 == [g EXCEPT !.heap[g.loc[s].room_id].messages = Append(@, message),
                        !.nextMsg = @ + 1]
    IN AfterBroadcast(Broadcast(g1, s, message, 0, "message"), s))

ReceiveMessage(s, content) ==
    /\ pc[s] = "receive"
    /\ net[s] = "open"
    /\ Becomes(MessageResult([Cur EXCEPT !.step = StepOf("message", s)], s, content))

\* lines 215-223: a typing event.
TypingResult(g0, s, is_typing) ==
    Bind(g0, LAMBDA g :
    LET typing_message == [type |-> "typing", user_id |-> g.loc[s].user_id,
                           username |-> g.loc[s].username, is_typing |-> is_typing]
    IN AfterBroadcast(Broadcast(g, s, typing_message, g.loc[s].user_id, "typing"), s))

ReceiveTyping(s, is_typing) ==
    /\ pc[s] = "receive"
    /\ net[s] = "open"
    /\ Becomes(TypingResult([Cur EXCEPT !.step = StepOf("typing", s)], s, is_typing))

\* Mutant of PingResult: the ping is dropped as a no-op.
PingDropped(g0, s) ==
    Bind(g0, LAMBDA g :
    g)

\* lines 225-227: a ping event: send_text of the pong is awaited.
PingResult(g0, s) ==
    Bind(g0, LAMBDA g :
    [g EXCEPT !.pc[s] = "pong", !.loc[s].frame = [type |-> "pong"]])

ReceivePing(s) ==
    /\ pc[s] = "receive"
    /\ net[s] = "open"
    /\ Becomes(PingResult([Cur EXCEPT !.step = StepOf("ping", s)], s))

\* line 227: the send_text of the pong returns or raises (inside the try).
PongCompleteResult(g0, s) ==
    Bind(g0, LAMBDA g :
    IF g.net[s] = "open"
    THEN [Deliver(g, s, g.loc[s].frame) EXCEPT !.pc[s] = "receive",
                                               !.loc[s].frame = NoEvent]
    ELSE Finally(g, s))

PongComplete(s) ==
    /\ pc[s] = "pong"
    /\ Becomes(PongCompleteResult([Cur EXCEPT !.step = StepOf("pong", s)], s))

\* Mutant of UnknownResult: an unknown type ends the session.
UnknownCloses(g0, s) ==
    Bind(g0, LAMBDA g :
    Finally(g, s))

\* lines 229-230: any other type is printed; the loop goes on to receive_text.
UnknownResult(g0, s) ==
    Bind(g0, LAMBDA g :
    [g EXCEPT !.pc[s] = "receive"])

ReceiveUnknown(s) ==
    /\ pc[s] = "receive"
    /\ net[s] = "open"
    /\ Becomes(UnknownResult([Cur EXCEPT !.step = StepOf("unknown", s)], s))

\* line 196 or 198: json.loads raises, or the frame has no "type":
\* except Exception, then the finally block.
ReceiveMalformed(s) ==
    /\ pc[s] = "receive"
    /\ net[s] = "open"
    /\ Becomes(Finally([Cur EXCEPT !.step = StepOf("malformed", s)], s))

\* line 195: receive_text raises WebSocketDisconnect; the websocket's
\* client_state is DISCONNECTED from then on.
ReceiveDisconnect(s) ==
    /\ pc[s] = "receive"
    /\ net[s] = "closed"
    /\ Becomes(Finally([Cur EXCEPT !.step = StepOf("disconnect", s),
                                   !.client_state[s] = "DISCONNECTED"], s))

\* The client, or the network, closes the transport of a running handler.
Drop(s) ==
    /\ pc[s] \notin {"idle", "closed", "raised"}
    /\ net[s] = "open"
    /\ Becomes([Cur EXCEPT !.net[s] = "closed", !.step = StepOf("drop", 0)])

\* The user ids handed out so far.
UserIds == (1..(nextId - 1)) \ DOMAIN heap

Next ==
    \/ \E n \in RoomNames, u \in CreatorNames :
          nextId + 1 <= MaxIds /\ CreateRoom(n, u)
    \/ \E r \in DOMAIN heap, u \in Usernames :
          nextId <= MaxIds /\ JoinRoom(r, u)
    \/ \E s \in Sessions, r \in DOMAIN heap, u \in UserIds :
          OpenSession(s, r, u)
    \/ \E s \in Sessions : Connecting(s)
    \/ \E s \in Sessions : SendComplete(s)
    \/ \E s \in Sessions : RoomInfoComplete(s)
    \/ \E s \in Sessions, c \in Contents :
          /\ pc[s] = "receive"
          /\ Len(heap[loc[s].room_id].messages) < MaxMessages
          /\ ReceiveMessage(s, c)
    \/ \E s \in Sessions : ReceiveTyping(s, TRUE)
    \/ \E s \in Sessions : ReceivePing(s)
    \/ \E s \in Sessions : PongComplete(s)
    \/ \E s \in Sessions : ReceiveUnknown(s)
    \/ \E s \in Sessions : ReceiveMalformed(s)
    \/ \E s \in Sessions : ReceiveDisconnect(s)
    \/ \E s \in Sessions : Drop(s)

Spec == Init /\ [][Next]_vars

\* One room whose creator posts up to MaxHistory messages while a second user
\* joins and connects at any moment; no transport fails.
NextHistory ==
    \/ \E n \in RoomNames, u \in CreatorNames :
          heap = << >> /\ CreateRoom(n, u)
    \/ \E r \in rooms :
          Cardinality(DOMAIN heap[r].users) < 2 /\ JoinRoom(r, <<"b", "o">>)
    \/ \E s \in Sessions, r \in rooms, u \in UserIds :
          /\ u \in DOMAIN heap[r].users
          /\ \A o \in Sessions : loc[o].user_id # u
          /\ OpenSession(s, r, u)
    \/ \E s \in Sessions : Connecting(s)
    \/ \E s \in Sessions : SendComplete(s)
    \/ \E s \in Sessions : RoomInfoComplete(s)
    \/ \E s \in Sessions, c \in Contents :
          /\ pc[s] = "receive"
          /\ heap[loc[s].room_id].users[loc[s].user_id].is_creator
          /\ Len(heap[loc[s].room_id].messages) < MaxHistory
          /\ ReceiveMessage(s, c)

SpecHistory == Init /\ [][NextHistory]_vars

\* =============================================================== claims
LiveEntries(d) == { d[i] : i \in DictLive(d) }

Range(seq) == { seq[i] : i \in 1..Len(seq) }

\* The session states of the connection life cycle.
IsActive(s) ==
    /\ loc[s].registered
    /\ ~loc[s].closing
    /\ pc[s] \in {"bc_send", "room_info", "receive", "pong"}

HasExited(s) == pc[s] \in {"closed", "raised"}

\* C1: in every reachable state, for every room of the registry, the keys of
\* its connections are keys of its users.
C1_ConnectionsSubsetMembers ==
    \A r \in rooms : DictKeys(heap[r].connections) \subseteq DOMAIN heap[r].users

\* C1 witness: a broadcast has just deregistered a recipient whose send
\* failed, and the room still holds a connection.
C1_Witness ==
    /\ step.pass.state = "done"
    /\ step.pass.disconnected # << >>
    /\ \E r \in rooms : DictKeys(heap[r].connections) # {}

\* C2 (as claimed): no room of the registry has zero members: the operation
\* that removes the last member also removes the room.
C2_NoEmptyRoomInRegistry ==
    \A r \in rooms : DOMAIN heap[r].users # {}

\* C3 (as claimed): a session that registered and has left Active went through
\* Closing, and no connections entry of a room belongs to a session that has
\* left Active.
C3_NoStaleConnection ==
    /\ \A s \in Sessions : (loc[s].registered /\ HasExited(s)) => loc[s].closing
    /\ \A r \in rooms : \A e \in LiveEntries(heap[r].connections) : IsActive(e.v)

\* C4 (as claimed): a room's history never holds more than 50 messages.
C4_HistoryBounded ==
    \A r \in DOMAIN heap : Len(heap[r].messages) <= HistoryWindow

\* C5: the room_info event built on entering Active carries the current users
\* and exactly the last min(10, |history|) messages in insertion order, and
\* that event is what the session is sent.
C5_RoomInfoRecent ==
    [][\A s \in Sessions :
        /\ (pc[s] # "room_info" /\ pc'[s] = "room_info") =>
              LET room == heap'[loc'[s].room_id]
                  h == room.messages
                  f == loc'[s].frame
                  n == IF Len(h) < RecentWindow THEN Len(h) ELSE RecentWindow
              IN /\ f.type = "room_info"
                 /\ f.users = room.users
                 /\ Len(f.recent_messages) = n
                 /\ \A i \in 1..n : f.recent_messages[i] = h[Len(h) - n + i]
        /\ (pc[s] = "room_info" /\ pc'[s] = "receive") =>
              step'.sends = << [to |-> s, ev |-> loc[s].frame] >>
      ]_vars

\* C5 witness: a room_info is pending for a room holding more than 10
\* messages and carries 10 of them.
C5_Witness ==
    \E s \in Sessions :
        /\ pc[s] = "room_info"
        /\ Len(heap[loc[s].room_id].messages) > RecentWindow
        /\ Len(loc[s].frame.recent_messages) = RecentWindow

\* Two characters that are the same letter, whatever their case.
SameLetter(c, d) ==
    \/ c = d
    \/ {c, d} \in { {"a", "A"}, {"b", "B"}, {"l", "L"}, {"o", "O"} }

EqualIgnoringCase(a, b) ==
    /\ Len(a) = Len(b)
    /\ \A i \in 1..Len(a) : SameLetter(a[i], b[i])

NoTwoMembersEqualIgnoringCase ==
    \A r \in rooms : \A u, w \in DOMAIN heap[r].users :
        u # w => ~EqualIgnoringCase(heap[r].users[u].username,
                                    heap[r].users[w].username)

\* C6: join_room on a room holding a member whose username equals the
\* requested one ignoring case answers UsernameTaken and leaves the members
\* as they were; no room ever holds two members equal ignoring case.
C6_UsernameUnique ==
    [][/\ (/\ step'.op = "join_room"
           /\ step'.s \in rooms
           /\ \E u \in DOMAIN heap[step'.s].users :
                 EqualIgnoringCase(heap[step'.s].users[u].username, step'.arg))
          => /\ step'.res = "UsernameTaken"
             /\ heap' = heap
       /\ NoTwoMembersEqualIgnoringCase'
      ]_vars

\* C6 witness: a join was refused for a username that differs from every
\* member's username, but only in case.
C6_Witness ==
    /\ step.op = "join_room"
    /\ step.res = "UsernameTaken"
    /\ \A u \in DOMAIN heap[step.s].users : heap[step.s].users[u].username # step.arg

\* C7 (as claimed): a broadcast pass in which some send failed has attempted
\* every recipient registered and not excluded when it began; when it ends
\* every recipient whose send failed is in neither connections nor users, and
\* every connection entry removed with it is one whose send failed.
C7_FailureIsolation ==
    [][(step'.pass.state # "none" /\ step'.pass.disconnected # << >>) =>
          LET p == step'.pass
              r == loc[step'.s].room_id
              before == LiveEntries(heap[r].connections)
              after == LiveEntries(heap'[r].connections)
          IN /\ p.targets \subseteq p.attempted
             /\ \A u \in Range(p.disconnected) :
                   /\ u \notin DictKeys(heap'[r].connections)
                   /\ u \notin DOMAIN heap'[r].users
             /\ \A e \in before \ after : e \in p.attempted /\ e.v \notin p.delivered
      ]_vars

\* C8 (as claimed): a message event appends exactly one Message to the
\* history, and the message pass attempts a send to every connection
\* registered when the event was received, the sending session's own
\* connection among them.
C8_MessageFanOut ==
    [][/\ step'.op = "message" =>
             LET s == step'.s
                 r == loc[s].room_id
             IN /\ Len(heap'[r].messages) = Len(heap[r].messages) + 1
                /\ SubSeq(heap'[r].messages, 1, Len(heap[r].messages)) = heap[r].messages
       /\ step'.pass.ctx = "message" =>
             LET p == step'.pass
                 s == step'.s
             IN /\ p.targets \subseteq p.attempted
                /\ [k |-> loc[s].user_id, v |-> s] \in p.attempted
      ]_vars

\* C9: handling a typing event changes no room's history, and every event it
\* delivers is the typing event, delivered to a session other than the sender
\* that registered in the sender's room under another user id.
C9_TypingNotToSender ==
    [][\A s \in Sessions :
          (/\ step'.s = s
           /\ \/ step'.op = "typing"
              \/ step'.op = "bc_send" /\ loc[s].bc.ctx = "typing")
          => /\ \A r \in DOMAIN heap : heap'[r].messages = heap[r].messages
             /\ \A i \in 1..Len(step'.sends) :
                   LET x == step'.sends[i]
                   IN /\ x.ev.type = "typing"
                      /\ x.ev.user_id = loc[s].user_id
                      /\ x.to # s
                      /\ loc[x.to].registered
                      /\ loc[x.to].room_id = loc[s].room_id
                      /\ loc[x.to].user_id # loc[s].user_id
      ]_vars

\* C9 witness: a typing event has just been delivered.
C9_Witness ==
    /\ step.op = "bc_send"
    /\ \E i \in 1..Len(step.sends) : step.sends[i].ev.type = "typing"

\* C10: a ping leaves every room, the registry and the connections as they
\* were and starts exactly one send, of a pong, to the session itself (and
\* nothing else starts one); when that send completes the pong is the only
\* event delivered, to that session, and nothing else has changed; a pong is
\* delivered in no other step.
C10_PingPong ==
    [][/\ \A s \in Sessions :
            /\ (step'.op = "ping" /\ step'.s = s) =>
                  /\ pc'[s] = "pong"
                  /\ loc'[s].frame = [type |-> "pong"]
                  /\ step'.sends = << >>
                  /\ heap' = heap /\ rooms' = rooms
                  /\ active_connections' = active_connections
            /\ (step'.op = "pong" /\ step'.s = s /\ net[s] = "open") =>
                  /\ pc[s] = "pong" /\ pc'[s] = "receive"
                  /\ step'.sends = << [to |-> s, ev |-> [type |-> "pong"]] >>
                  /\ heap' = heap /\ rooms' = rooms
                  /\ active_connections' = active_connections
            /\ (pc[s] # "pong" /\ pc'[s] = "pong") => (step'.op = "ping" /\ step'.s = s)
            /\ (pc[s] = "pong" /\ pc'[s] # "pong") => (step'.op = "pong" /\ step'.s = s)
       /\ \A i \in 1..Len(step'.sends) :
            step'.sends[i].ev.type = "pong" => step'.op = "pong"
      ]_vars

\* C10 witness: a pong has just been delivered to the session that pinged.
C10_Witness ==
    /\ step.op = "pong"
    /\ step.sends = << [to |-> step.s, ev |-> [type |-> "pong"]] >>
    /\ pc[step.s] = "receive"

\* The leave pass of the teardown that session s has just begun, whether it
\* is suspended in a send or has ended within the step.
LeavePass(s) ==
    IF step'.pass.ctx = "leave" THEN step'.pass ELSE loc'[s].bc

\* C11 (as claimed): the users_count of the user_left event a teardown
\* broadcasts to the room's connections is the number of members of the room
\* once the departing member is not among them, also when that member had
\* been removed before by a failure cleanup.
C11_LeaveCount ==
    [][\A s \in Sessions :
          (~loc[s].closing /\ loc'[s].closing /\ LeavePass(s).targets # {}) =>
              /\ LeavePass(s).message.type = "user_left"
              /\ LeavePass(s).message.users_count =
                    Cardinality(DOMAIN heap[loc[s].room_id].users \ {loc[s].user_id})
      ]_vars

\* C12: a room leaves the registry only in a step after which it has no
\* member, and never in a join_room step; a join_room that answers ok leaves
\* its room in the registry with the new member in it; a room that has left
\* the registry never holds a member again.
C12_DeleteOnlyWhenEmpty ==
    [][/\ \A r \in rooms : r \notin rooms' =>
             /\ DOMAIN heap'[r].users = {}
             /\ step'.op # "join_room"
       /\ (step'.op = "join_room" /\ step'.res = "ok") =>
             /\ step'.s \in rooms'
             /\ nextId \in DOMAIN heap'[step'.s].users
             /\ heap'[step'.s].users[nextId].username = step'.arg
       /\ \A r \in DOMAIN heap' : r \notin rooms' => DOMAIN heap'[r].users = {}
      ]_vars

\* C12 witness: a teardown has just removed a room from the registry that a
\* member added by join_room had connected to.
C12_Witness ==
    /\ step.op \in {"disconnect", "malformed", "bc_send", "pong"}
    /\ pc[step.s] = "closed"
    /\ loc[step.s].closing
    /\ loc[step.s].room_id \notin rooms
    /\ \E o \in Sessions :
          /\ loc[o].registered
          /\ loc[o].room_id = loc[step.s].room_id
          /\ loc[o].user_id # loc[o].room_id + 1

\* The join pass of the session s that has just registered, whether it is
\* suspended in a send or has ended within the step.
JoinPass(s) ==
    IF step'.pass.ctx = "join" THEN step'.pass ELSE loc'[s].bc

\* The sessions Active and waiting for a frame in room r as its creator.
CreatorSessions(r) ==
    { o \in Sessions : /\ IsActive(o) /\ pc[o] = "receive"
                       /\ loc[o].room_id = r
                       /\ loc[o].user_id \in DOMAIN heap[r].users
                       /\ heap[r].users[loc[o].user_id].is_creator }

\* C13 (as claimed): when the member added by join_room connects to a room
\* whose creator is connected, the room has 2 members and the user_joined
\* event is delivered to both, the creator's session and the joiner's own.
C13_BothReceiveJoined ==
    [][(/\ step'.pass.ctx = "join"
        /\ step'.pass.state = "done"
        /\ step'.pass.targets # {}) =>
           /\ Cardinality(DOMAIN heap'[loc[step'.s].room_id].users) = 2
           /\ \A e \in step'.pass.targets : e.v \in step'.pass.delivered
           /\ step'.s \in step'.pass.delivered
      ]_vars

\* C13 (amended): when the member added by join_room connects to a room whose
\* creator is connected and waiting, the room has 2 members and the
\* user_joined event carries the count 2 and is addressed to the creator's
\* session alone; a join pass that completes has delivered it to every session
\* it was addressed to; and a user_joined event is never delivered to the
\* session whose registration it announces.
C13_JoinedToOthersOnly ==
    [][/\ \A s \in Sessions :
            (/\ step'.op = "connect" /\ step'.s = s /\ loc'[s].registered
             /\ CreatorSessions(loc[s].room_id) # {}
             /\ loc[s].user_id \notin { loc[o].user_id : o \in CreatorSessions(loc[s].room_id) })
            => /\ Cardinality(DOMAIN heap'[loc[s].room_id].users) = 2
               /\ JoinPass(s).message.type = "user_joined"
               /\ JoinPass(s).message.user_id = loc[s].user_id
               /\ JoinPass(s).message.users_count = 2
               /\ JoinPass(s).targets =
                     { [k |-> loc[o].user_id, v |-> o] : o \in CreatorSessions(loc[s].room_id) }
       /\ (step'.pass.ctx = "join" /\ step'.pass.state = "done") =>
             /\ step'.pass.delivered = { e.v : e \in step'.pass.targets }
             /\ step'.s \notin step'.pass.delivered
       /\ \A i \in 1..Len(step'.sends) :
             step'.sends[i].ev.type = "user_joined" =>
                 /\ step'.sends[i].to # step'.s
                 /\ step'.sends[i].ev.user_id = loc[step'.s].user_id
      ]_vars

\* C13 witness: the joiner's user_joined pass has completed: the event went to
\* the creator's session, in a room of 2 members.
C13_Witness ==
    /\ step.pass.ctx = "join"
    /\ step.pass.state = "done"
    /\ step.pass.message.users_count = 2
    /\ step.pass.delivered # {}
    /\ \A o \in step.pass.delivered :
          /\ pc[o] = "receive"
          /\ heap[loc[o].room_id].users[loc[o].user_id].is_creator
    /\ Cardinality(DOMAIN heap[loc[step.s].room_id].users) = 2

\* C14 (as claimed): an unparseable frame received by an Active session
\* leaves the session Active and the registry, the members, the connections
\* and the history of every room as they were.
C14_MalformedKeptOpen ==
    [][\A s \in Sessions :
          (step'.op = "malformed" /\ step'.s = s) =>
              /\ pc'[s] = "receive"
              /\ ~loc'[s].closing
              /\ net'[s] = net[s]
              /\ heap' = heap
              /\ rooms' = rooms
              /\ active_connections' = active_connections
      ]_vars

\* The connection request of session s names a room that is not in the
\* registry, or a user that is not a member of that room.
Unresolvable(s) ==
    \/ loc[s].room_id \notin rooms
    \/ loc[s].user_id \notin DOMAIN heap[loc[s].room_id].users

\* C15: a connection accepted for a room id that is not in the registry, or
\* for a user id that is not a member of that room, ends at once without
\* registering: over an open transport it is sent exactly one event, the error
\* event naming what is missing, and is closed; the registry, the members,
\* the connections and the history are as they were and no broadcast is made;
\* and no connections entry ever holds a session that did not register.
C15_RejectUnresolvable ==
    [][/\ \A s \in Sessions :
            (step'.op = "connect" /\ step'.s = s /\ Unresolvable(s)) =>
                /\ ~loc'[s].registered
                /\ pc'[s] \in {"closed", "raised"}
                /\ step'.res = IF loc[s].room_id \notin rooms
                               THEN "Room not found" ELSE "User not found in room"
                /\ net[s] = "open" =>
                      /\ pc'[s] = "closed"
                      /\ step'.sends = << [to |-> s, ev |-> [type |-> "error",
                                                            message |-> step'.res]] >>
                /\ net[s] # "open" => step'.sends = << >>
                /\ heap' = heap
                /\ rooms' = rooms
                /\ active_connections' = active_connections
                /\ step'.pass = NoPass
       /\ \A r \in DOMAIN heap' : \A e \in LiveEntries(heap'[r].connections) :
             loc'[e.v].registered
       /\ \A i \in 1..Len(step'.sends) :
             step'.sends[i].ev.type = "error" => (step'.op = "connect" /\ Unresolvable(step'.s))
      ]_vars

\* C15 witness: a connection for a user id that is no longer a member of its
\* room has just been answered with the error event and closed.
C15_Witness ==
    /\ step.op = "connect"
    /\ step.res = "User not found in room"
    /\ step.sends = << [to |-> step.s, ev |-> [type |-> "error", message |-> step.res]] >>
    /\ pc[step.s] = "closed"
    /\ ~loc[step.s].registered

\* Session s is inside a broadcast fan-out: suspended in one of its sends.
InFanOut(s) == pc[s] = "bc_send" /\ loc[s].bc.state = "send"

\* C16 (as claimed): while a broadcast fan-out over a room is suspended in a
\* send, no step of anyone else changes that room's members, connections or
\* history.
C16_NoMutationDuringFanOut ==
    [][\A s \in Sessions :
          (InFanOut(s) /\ pc'[s] = pc[s] /\ loc'[s] = loc[s]) =>
              /\ heap'[loc[s].room_id].users = heap[loc[s].room_id].users
              /\ heap'[loc[s].room_id].connections = heap[loc[s].room_id].connections
              /\ heap'[loc[s].room_id].messages = heap[loc[s].room_id].messages
      ]_vars

\* ------------------------------------------------------- slow recipients
\* The websockets whose send_text, once awaited by a broadcast, may never
\* return: the client does not drain its socket.
SlowSessions == {1}

\* The awaited send of s's broadcast is to a websocket that drains.
SendCompleteFast(s) == SendComplete(s) /\ loc[s].bc.cur.v \notin SlowSessions

\* The awaited send of s's broadcast is to a slow websocket: it may return.
SendCompleteSlow(s) == SendComplete(s) /\ loc[s].bc.cur.v \in SlowSessions

\* One room of two members, both connecting and sending message and typing
\* events; no transport fails.
NextSlow ==
    \/ \E n \in RoomNames, u \in CreatorNames :
          heap = << >> /\ CreateRoom(n, u)
    \/ \E r \in rooms :
          Cardinality(DOMAIN heap[r].users) < 2 /\ JoinRoom(r, <<"b", "o">>)
    \/ \E s \in Sessions, r \in rooms, u \in UserIds :
          /\ u \in DOMAIN heap[r].users
          /\ \A o \in Sessions : loc[o].user_id # u
          /\ OpenSession(s, r, u)
    \/ \E s \in Sessions : Connecting(s)
    \/ \E s \in Sessions : SendCompleteFast(s)
    \/ \E s \in Sessions : SendCompleteSlow(s)
    \/ \E s \in Sessions : RoomInfoComplete(s)
    \/ \E s \in Sessions, c \in Contents :
          /\ pc[s] = "receive"
          /\ Len(heap[loc[s].room_id].messages) < MaxMessages
          /\ ReceiveMessage(s, c)
    \/ \E s \in Sessions : ReceiveTyping(s, TRUE)

\* The event loop resumes every coroutine whose await has returned: accept,
\* a send_text to a websocket that drains.  Nothing is promised of a send to
\* a slow websocket, nor of the clients' frames.
FairSlow ==
    \A s \in Sessions :
        /\ WF_vars(Connecting(s))
        /\ WF_vars(SendCompleteFast(s))
        /\ WF_vars(s \notin SlowSessions /\ RoomInfoComplete(s))

SpecSlow == Init /\ [][NextSlow]_vars /\ FairSlow

\* Within s's fan-out, websocket w is a recipient no send was attempted to yet.
Pending(s, w) ==
    /\ InFanOut(s)
    /\ \E e \in loc[s].bc.targets \ loc[s].bc.attempted : e.v = w

\* C17 (as claimed): within a fan-out, a recipient that drains and is still
\* waiting for its send does not wait for ever, whether or not the send to a
\* slow recipient completes.
C17_SlowDoesNotBlock ==
    \A s \in Sessions : \A w \in Sessions \ SlowSessions :
        Pending(s, w) ~> ~Pending(s, w)

\* C18: a frame whose type is none of message, typing and ping leaves the
\* session Active and waiting for the next frame, delivers nothing to any
\* connection, starts no send and no broadcast, and leaves the registry and
\* every room's members, connections and history as they were.
C18_UnknownIgnored ==
    [][\A s \in Sessions :
          (step'.op = "unknown" /\ step'.s = s) =>
              /\ IsActive(s) /\ IsActive(s)'
              /\ pc'[s] = "receive"
              /\ step'.sends = << >>
              /\ step'.pass = NoPass
              /\ loc' = loc /\ pc' = pc /\ net' = net
              /\ heap' = heap
              /\ rooms' = rooms
              /\ active_connections' = active_connections
      ]_vars

\* C18 witness: a frame of unknown type has just been handled in a room that
\* holds another connection, to which nothing was sent.
C18_Witness ==
    /\ step.op = "unknown"
    /\ pc[step.s] = "receive"
    /\ step.sends = << >>
    /\ \E e \in LiveEntries(heap[loc[step.s].room_id].connections) : e.v # step.s

\* C19 (as claimed): while a session is Active, its user id is a member of
\* its room and the websocket the room's connections hold for that user id is
\* the session's own.
C19_ActiveIsRegistered ==
    \A s \in Sessions :
        IsActive(s) =>
            /\ loc[s].user_id \in DOMAIN heap[loc[s].room_id].users
            /\ [k |-> loc[s].user_id, v |-> s] \in LiveEntries(heap[loc[s].room_id].connections)

\* C20 (as claimed): a session that has entered its teardown does not end by
\* raising an error.
C20_ClosingNeverRaises ==
    \A s \in Sessions : loc[s].closing => pc[s] # "raised"

====
